---- MODULE Spec2Model ----
(***************************************************************************)
(* ZeroesToBeginning.cc: two movers that bring the zero elements of an int *)
(* array to its beginning, executed statement by statement, and the        *)
(* callers that hand them valid and invalid arguments.                     *)
(*                                                                         *)
(* Arrays are functions over 0..n-1, so every index is the C index.        *)
(***************************************************************************)
EXTENDS Integers, FiniteSets, Sequences, TLC

(* ---------------------------- bounds ----------------------------------- *)
MaxLen == 4          \* longest caller array
MaxVal == 2          \* element values are 0..MaxVal
MaxNeg == 1          \* callers pass array_size arguments down to -MaxNeg

Values == 0..MaxVal
Movers == {"RuntimeOptimized", "SpaceOptimized"}
Refs == {"NULL", "array", "bogus"}   \* NULL, test_array, (int *) 1

VARIABLES
  array,              \* the caller's int array (memory behind a non-null, non-bogus pointer)
  ref,                \* the pointer argument: "NULL", "array" or "bogus"
  array_size,         \* the array_size argument
  fn,                 \* the mover being executed
  pc,                 \* position in the mover
  i,                  \* loop variable of either mover
  next_zero,          \* SpaceOptimized cursor
  next_output_array,  \* RuntimeOptimized write cursor
  output_array,       \* RuntimeOptimized scratch buffer (empty function when not allocated)
  ret,                \* <<v>> once the mover returned v, <<>> before
  entry,              \* contents of array when the call started
  touched,            \* indices dereferenced through the array argument in this call
  out_touched,        \* indices dereferenced in output_array in this call
  outer_count,        \* executions of the SpaceOptimized outer loop body
  inner_count,        \* executions of the SpaceOptimized inner loop body
  last_call           \* <<r>> with r the latest completed call on the array, <<>> before any

vars == <<array, ref, array_size, fn, pc, i, next_zero, next_output_array,
          output_array, ret, entry, touched, out_touched, outer_count,
          inner_count, last_call>>

locals == <<i, next_zero, next_output_array, output_array>>
ghosts == <<touched, out_touched, outer_count, inner_count>>
args == <<ref, array_size, fn, entry>>

(* ---------------------------- helpers ---------------------------------- *)
Size(a) == Cardinality(DOMAIN a)

NoBuffer == [k \in {} |-> 0]

\* new int[n]() : n value-initialised ints
NewZeroed(n) == [k \in 0..(n - 1) |-> 0]

\* memcpy(dst, src, n * sizeof(int))
Memcpy(dst, src, n) == [k \in DOMAIN dst |-> IF k < n THEN src[k] ELSE dst[k]]

CountZeroes(a) == Cardinality({k \in DOMAIN a : a[k] = 0})

CountNonZeroes(a) == Cardinality({k \in DOMAIN a : a[k] # 0})

\* indices [0, z) hold 0 and indices [z, n) hold non-zero values
ZeroPrefix(a, n, z) ==
  \A k \in 0..(n - 1) : IF k < z THEN a[k] = 0 ELSE a[k] # 0

\* number of occurrences of every value
Multiset(a) == [v \in Values |-> Cardinality({k \in DOMAIN a : a[k] = v})]

\* the array as a sequence, first element first
AsSeq(a) == [k \in 1..Size(a) |-> a[k - 1]]

RECURSIVE NonZeroes(_)
NonZeroes(s) ==
  IF s = <<>> THEN <<>>
  ELSE IF Head(s) # 0 THEN <<Head(s)>> \o NonZeroes(Tail(s))
  ELSE NonZeroes(Tail(s))

Zeroes(n) == [k \in 1..n |-> 0]

\* the arguments satisfy the calling convention: the array and its true length
ValidCall == ref = "array" /\ array_size = Size(entry)

(* ---------------------------- initial state ---------------------------- *)
Init ==
  /\ array \in UNION {[0..(n - 1) -> Values] : n \in 1..MaxLen}
  /\ ref = "NULL"
  /\ array_size = 0
  /\ fn = "RuntimeOptimized"
  /\ pc = "idle"
  /\ i = 0
  /\ next_zero = 0
  /\ next_output_array = 0
  /\ output_array = NoBuffer
  /\ ret = <<>>
  /\ entry = array
  /\ touched = {}
  /\ out_touched = {}
  /\ outer_count = 0
  /\ inner_count = 0
  /\ last_call = <<>>

(* ---------------------------- callers ---------------------------------- *)
\* array_size values a caller combines with a pointer
SizesFor(r) ==
  IF r = "array" THEN ((-MaxNeg)..0) \cup {Size(array)}
  ELSE IF r = "NULL" THEN (-MaxNeg)..1
  ELSE (-MaxNeg)..0

Call(f, r, n) ==
  /\ pc = "idle"
  /\ fn' = f
  /\ ref' = r
  /\ array_size' = n
  /\ entry' = array
  /\ ret' = <<>>
  /\ pc' = IF f = "RuntimeOptimized" THEN "r_check_null" ELSE "s_check_null"
  /\ touched' = {}
  /\ out_touched' = {}
  /\ outer_count' = 0
  /\ inner_count' = 0
  /\ UNCHANGED <<array, locals, last_call>>

CallMover == \E f \in Movers, r \in Refs : \E n \in SizesFor(r) : Call(f, r, n)

\* the caller takes the return value and inspects the array
Return ==
  /\ pc = "done"
  /\ last_call' = <<[fn |-> fn, valid |-> ValidCall, before |-> entry,
                     after |-> array, ret |-> ret]>>
  /\ pc' = "idle"
  /\ i' = 0
  /\ next_zero' = 0
  /\ next_output_array' = 0
  /\ UNCHANGED <<array, args, output_array, ret, ghosts>>

(* ------------------- ZeroesToBeginningRuntimeOptimized ----------------- *)
\* if (array == NULL) return -1;
R_CheckNull ==
  /\ pc = "r_check_null"
  /\ IF ref = "NULL"
       THEN ret' = <<-1>> /\ pc' = "done"
       ELSE ret' = ret /\ pc' = "r_check_size"
  /\ UNCHANGED <<array, args, locals, ghosts, last_call>>

R_CheckSize_Missing ==
  /\ pc = "r_check_size"
  /\ pc' = "r_alloc"
  /\ UNCHANGED <<array, args, locals, ret, ghosts, last_call>>

\* if (array_size == 0) return -1;
R_CheckSize ==
  /\ pc = "r_check_size"
  /\ IF array_size = 0
       THEN ret' = <<-1>> /\ pc' = "done"
       ELSE ret' = ret /\ pc' = "r_alloc"
  /\ UNCHANGED <<array, args, locals, ghosts, last_call>>

R_Alloc_OffByOne ==
  /\ pc = "r_alloc"
  /\ IF array_size < 0
       THEN /\ pc' = "threw"
            /\ UNCHANGED locals
       ELSE /\ output_array' = NewZeroed(array_size)
            /\ next_output_array' = array_size
            /\ i' = array_size - 1
            /\ pc' = "r_loop"
            /\ UNCHANGED next_zero
  /\ UNCHANGED <<array, args, ret, ghosts, last_call>>

\* int *output_array = new int[array_size](); int next_output_array = array_size - 1;
\* and the loop initialisation int i = array_size - 1.
\* A negative array_size makes the new-expression throw std::bad_array_new_length;
\* nothing catches it, so the program terminates.
R_Alloc ==
  /\ pc = "r_alloc"
  /\ IF array_size < 0
       THEN /\ pc' = "threw"
            /\ UNCHANGED locals
       ELSE /\ output_array' = NewZeroed(array_size)
            /\ next_output_array' = array_size - 1
            /\ i' = array_size - 1
            /\ pc' = "r_loop"
            /\ UNCHANGED next_zero
  /\ UNCHANGED <<array, args, ret, ghosts, last_call>>

\* i >= 0
R_LoopTest ==
  /\ pc = "r_loop"
  /\ pc' = IF i >= 0 THEN "r_test" ELSE "r_memcpy"
  /\ UNCHANGED <<array, args, locals, ret, ghosts, last_call>>

R_Test_CopyAll ==
  /\ pc = "r_test"
  /\ touched' = touched \cup {i}
  /\ pc' = "r_write"
  /\ UNCHANGED <<array, args, locals, ret, out_touched, outer_count, inner_count, last_call>>

\* if (array[i] != 0)
R_Test ==
  /\ pc = "r_test"
  /\ touched' = touched \cup {i}
  /\ pc' = IF array[i] # 0 THEN "r_write" ELSE "r_dec"
  /\ UNCHANGED <<array, args, locals, ret, out_touched, outer_count, inner_count, last_call>>

R_Write_NoDec ==
  /\ pc = "r_write"
  /\ touched' = touched \cup {i}
  /\ out_touched' = out_touched \cup {next_output_array}
  /\ output_array' = [output_array EXCEPT ![next_output_array] = array[i]]
  /\ pc' = "r_dec"
  /\ UNCHANGED <<array, args, i, next_zero, next_output_array, ret, outer_count,
                 inner_count, last_call>>

\* output_array[next_output_array] = array[i]; --next_output_array;
R_Write ==
  /\ pc = "r_write"
  /\ touched' = touched \cup {i}
  /\ out_touched' = out_touched \cup {next_output_array}
  /\ output_array' = [output_array EXCEPT ![next_output_array] = array[i]]
  /\ next_output_array' = next_output_array - 1
  /\ pc' = "r_dec"
  /\ UNCHANGED <<array, args, i, next_zero, ret, outer_count, inner_count, last_call>>

R_Dec_ByTwo ==
  /\ pc = "r_dec"
  /\ i' = i - 2
  /\ pc' = "r_loop"
  /\ UNCHANGED <<array, args, next_zero, next_output_array, output_array, ret,
                 ghosts, last_call>>

\* --i
R_Dec ==
  /\ pc = "r_dec"
  /\ i' = i - 1
  /\ pc' = "r_loop"
  /\ UNCHANGED <<array, args, next_zero, next_output_array, output_array, ret,
                 ghosts, last_call>>

\* memcpy(array, output_array, array_size * sizeof(int));
R_Memcpy ==
  /\ pc = "r_memcpy"
  /\ array' = Memcpy(array, output_array, array_size)
  /\ touched' = touched \cup (0..(array_size - 1))
  /\ out_touched' = out_touched \cup (0..(array_size - 1))
  /\ pc' = "r_delete"
  /\ UNCHANGED <<args, locals, ret, outer_count, inner_count, last_call>>

\* delete output_array; return 0;
\* (scalar delete of a new[] buffer of ints: the buffer is released, array is
\* already written by then)
R_Delete ==
  /\ pc = "r_delete"
  /\ output_array' = NoBuffer
  /\ ret' = <<0>>
  /\ pc' = "done"
  /\ UNCHANGED <<array, args, i, next_zero, next_output_array, ghosts, last_call>>

(* ------------------- ZeroesToBeginningSpaceOptimized ------------------- *)
\* if (array == NULL) return -1;
S_CheckNull ==
  /\ pc = "s_check_null"
  /\ IF ref = "NULL"
       THEN ret' = <<-1>> /\ pc' = "done"
       ELSE ret' = ret /\ pc' = "s_check_size"
  /\ UNCHANGED <<array, args, locals, ghosts, last_call>>

\* if (array_size == 0) return -1;
S_CheckSize ==
  /\ pc = "s_check_size"
  /\ IF array_size = 0
       THEN ret' = <<-1>> /\ pc' = "done"
       ELSE ret' = ret /\ pc' = "s_init"
  /\ UNCHANGED <<array, args, locals, ghosts, last_call>>

S_Init_SkipFirst ==
  /\ pc = "s_init"
  /\ next_zero' = 1
  /\ i' = array_size - 1
  /\ pc' = "s_outer"
  /\ UNCHANGED <<array, args, next_output_array, output_array, ret, ghosts, last_call>>

\* int next_zero = 0; and the loop initialisation int i = array_size - 1
S_Init ==
  /\ pc = "s_init"
  /\ next_zero' = 0
  /\ i' = array_size - 1
  /\ pc' = "s_outer"
  /\ UNCHANGED <<array, args, next_output_array, output_array, ret, ghosts, last_call>>

\* i > next_zero; when it fails: return 0;
S_OuterTest ==
  /\ pc = "s_outer"
  /\ IF i > next_zero
       THEN /\ pc' = "s_if"
            /\ outer_count' = outer_count + 1
            /\ ret' = ret
       ELSE /\ pc' = "done"
            /\ ret' = <<0>>
            /\ outer_count' = outer_count
  /\ UNCHANGED <<array, args, locals, touched, out_touched, inner_count, last_call>>

S_If_Rescan ==
  /\ pc = "s_if"
  /\ touched' = touched \cup {i}
  /\ IF array[i] = 0
       THEN pc' = "s_inner" /\ next_zero' = 0
       ELSE pc' = "s_dec" /\ next_zero' = next_zero
  /\ UNCHANGED <<array, args, i, next_output_array, output_array, ret, out_touched,
                 outer_count, inner_count, last_call>>

\* if (array[i] == 0)
S_If ==
  /\ pc = "s_if"
  /\ touched' = touched \cup {i}
  /\ pc' = IF array[i] = 0 THEN "s_inner" ELSE "s_dec"
  /\ UNCHANGED <<array, args, locals, ret, out_touched, outer_count, inner_count, last_call>>

\* (array[next_zero] == 0) && (i > next_zero)
S_InnerTest ==
  /\ pc = "s_inner"
  /\ touched' = touched \cup {next_zero}
  /\ pc' = IF array[next_zero] = 0 /\ i > next_zero THEN "s_inc" ELSE "s_swap"
  /\ UNCHANGED <<array, args, locals, ret, out_touched, outer_count, inner_count, last_call>>

\* ++next_zero;
S_Inc ==
  /\ pc = "s_inc"
  /\ next_zero' = next_zero + 1
  /\ inner_count' = inner_count + 1
  /\ pc' = "s_inner"
  /\ UNCHANGED <<array, args, i, next_output_array, output_array, ret, touched,
                 out_touched, outer_count, last_call>>

S_Swap_NoClear ==
  /\ pc = "s_swap"
  /\ touched' = touched \cup {i, next_zero}
  /\ array' = [array EXCEPT ![i] = array[next_zero]]
  /\ pc' = "s_dec"
  /\ UNCHANGED <<args, locals, ret, out_touched, outer_count, inner_count, last_call>>

\* array[i] = array[next_zero]; array[next_zero] = 0;
S_Swap ==
  /\ pc = "s_swap"
  /\ touched' = touched \cup {i, next_zero}
  /\ array' = [[array EXCEPT ![i] = array[next_zero]] EXCEPT ![next_zero] = 0]
  /\ pc' = "s_dec"
  /\ UNCHANGED <<args, locals, ret, out_touched, outer_count, inner_count, last_call>>

\* --i
S_Dec ==
  /\ pc = "s_dec"
  /\ i' = i - 1
  /\ pc' = "s_outer"
  /\ UNCHANGED <<array, args, next_zero, next_output_array, output_array, ret,
                 ghosts, last_call>>

(* ---------------------------- specification ---------------------------- *)
Next ==
  \/ CallMover
  \/ Return
  \/ R_CheckNull
  \/ R_CheckSize
  \/ R_Alloc
  \/ R_LoopTest
  \/ R_Test
  \/ R_Write
  \/ R_Dec
  \/ R_Memcpy
  \/ R_Delete
  \/ S_CheckNull
  \/ S_CheckSize
  \/ S_Init
  \/ S_OuterTest
  \/ S_If
  \/ S_InnerTest
  \/ S_Inc
  \/ S_Swap
  \/ S_Dec

Spec == Init /\ [][Next]_vars

TypeOK ==
  /\ array \in [0..(Size(array) - 1) -> Values]
  /\ Size(array) \in 1..MaxLen
  /\ ref \in Refs
  /\ fn \in Movers
  /\ ret \in {<<>>, <<0>>, <<-1>>}
  /\ Len(last_call) <= 1

(* ---------------------------- properties ------------------------------- *)
\* the call that preceded the current one on the same array
Previous == last_call[1]

Returned == pc = "done"

\* C1: SpaceOptimized on a non-null array of length array_size >= 1 returns 0
\* and leaves z zeroes in [0, z) and non-zero values in [z, array_size),
\* z being the number of zeroes of the input.
C1_SpaceZeroPrefix ==
  (Returned /\ fn = "SpaceOptimized" /\ ValidCall) =>
    /\ ret = <<0>>
    /\ ZeroPrefix(array, array_size, CountZeroes(entry))

C1_Witness ==
  /\ Returned /\ fn = "SpaceOptimized" /\ ValidCall
  /\ CountZeroes(entry) >= 2
  /\ CountNonZeroes(entry) >= 2
  /\ array # entry
  /\ ret = <<0>>

\* C2: RuntimeOptimized on a non-null array of length array_size >= 1 returns 0
\* and leaves z zeroes in [0, z) and non-zero values in [z, array_size); no zero
\* of the input is ever copied into output_array, whose zeroes are exactly the
\* elements never written since the value-initialisation.
C2_RuntimeZeroPrefix ==
  (fn = "RuntimeOptimized" /\ ValidCall) =>
    /\ pc = "r_write" => array[i] # 0
    /\ pc \in {"r_loop", "r_test", "r_write", "r_dec", "r_memcpy"} =>
         \A k \in DOMAIN output_array :
           (output_array[k] = 0) <=> (k \notin out_touched)
    /\ Returned =>
         /\ ret = <<0>>
         /\ ZeroPrefix(array, array_size, CountZeroes(entry))

C2_Witness ==
  /\ Returned /\ fn = "RuntimeOptimized" /\ ValidCall
  /\ CountZeroes(entry) >= 2
  /\ CountNonZeroes(entry) >= 2
  /\ array # entry
  /\ ret = <<0>>

\* C3: for both movers and every valid input the multiset of values in the array
\* when the call returns equals the multiset when the call started.
C3_Permutation ==
  (Returned /\ ValidCall) => Multiset(array) = Multiset(entry)

C3_Witness ==
  /\ Returned /\ ValidCall
  /\ array # entry
  /\ \E v \in Values \ {0} : Multiset(entry)[v] >= 2
  /\ Multiset(entry)[0] >= 1
  /\ fn = "RuntimeOptimized"

\* C4: for both movers a call with a NULL array (any count) or with a count of 0
\* (any array reference) returns -1, never gets past the two sanity checks, so it
\* neither dereferences the array nor allocates output_array, and the array is
\* unchanged.
C4_InvalidRejected ==
  (pc # "idle" /\ (ref = "NULL" \/ array_size = 0)) =>
    /\ pc \in {"r_check_null", "r_check_size", "s_check_null", "s_check_size", "done"}
    /\ touched = {}
    /\ out_touched = {}
    /\ output_array = NoBuffer
    /\ array = entry
    /\ Returned => ret = <<-1>>

C4_Witness ==
  /\ Returned /\ ref = "bogus" /\ array_size = 0 /\ ret = <<-1>>
  /\ fn = "SpaceOptimized"
  /\ last_call # <<>> /\ ~Previous.valid /\ Previous.ret = <<-1>>

\* C5: for both movers a call with a non-null array and a non-positive count
\* (negative as well as 0) returns -1 and never 0.
C5_NonPositiveRejected ==
  (Returned /\ ref # "NULL" /\ array_size <= 0) => ret = <<-1>>

\* C6: in SpaceOptimized on a valid input the executions of the outer loop body
\* plus the executions of the inner loop body never exceed array_size.
C6_LinearSteps ==
  (pc # "idle" /\ fn = "SpaceOptimized" /\ ValidCall) =>
    outer_count + inner_count <= array_size

C6_Witness ==
  /\ Returned /\ fn = "SpaceOptimized" /\ ValidCall
  /\ array_size >= 3
  /\ inner_count >= 2
  /\ outer_count + inner_count = array_size

\* C7: applying the same mover a second time to the array its first application
\* produced returns 0 and leaves the zero/non-zero partition of the first
\* application: zeroes in [0, z), non-zero values in [z, array_size), same z.
C7_SecondApplication ==
  (/\ Returned /\ ValidCall /\ last_call # <<>>
   /\ Previous.fn = fn /\ Previous.valid) =>
    /\ ret = <<0>>
    /\ ZeroPrefix(array, array_size, CountZeroes(Previous.before))
    /\ \A k \in 0..(array_size - 1) : (array[k] = 0) <=> (Previous.after[k] = 0)

C7_Witness ==
  /\ Returned /\ ValidCall /\ last_call # <<>>
  /\ Previous.fn = fn /\ Previous.valid
  /\ Previous.after # Previous.before
  /\ CountZeroes(Previous.before) >= 1
  /\ CountNonZeroes(Previous.before) >= 2
  /\ ret = <<0>>

\* C8: in SpaceOptimized on a valid input the outer loop body executes exactly
\* "number of non-zeroes" times and the inner loop body exactly "number of
\* zeroes" times, array_size times together.
C8_ExactLoopCounts ==
  (Returned /\ fn = "SpaceOptimized" /\ ValidCall) =>
    /\ outer_count = CountNonZeroes(entry)
    /\ inner_count = CountZeroes(entry)
    /\ outer_count + inner_count = array_size

\* C9: on a valid input every index at which a mover reads or writes array or
\* output_array lies in [0, array_size): 0 <= next_zero <= i <= array_size - 1
\* at every evaluation of array[next_zero] and array[i] in SpaceOptimized, and
\* 0 <= i <= next_output_array <= array_size - 1 at every write to
\* output_array[next_output_array] in RuntimeOptimized.
C9_IndicesInBounds ==
  ValidCall =>
    /\ pc \in {"s_if", "s_inner", "s_swap"} =>
         /\ 0 <= next_zero
         /\ next_zero <= i
         /\ i <= array_size - 1
    /\ pc = "r_test" => (0 <= i /\ i <= array_size - 1)
    /\ pc = "r_write" =>
         /\ 0 <= i
         /\ i <= next_output_array
         /\ next_output_array <= array_size - 1
    /\ pc # "idle" => touched \subseteq 0..(array_size - 1)
    /\ pc # "idle" => out_touched \subseteq 0..(array_size - 1)

\* the inner-loop test reads array[next_zero] with the two cursors on the same zero
C9_Witness ==
  /\ ValidCall /\ pc = "s_inner"
  /\ next_zero = i
  /\ i >= 1
  /\ array[next_zero] = 0

\* C10: RuntimeOptimized is stable: the result is z zeroes followed by the
\* non-zero elements of the input in their original order, and after the backward
\* scan next_output_array = z - 1.
C10_RuntimeStable ==
  (fn = "RuntimeOptimized" /\ ValidCall) =>
    /\ pc = "r_memcpy" => next_output_array = CountZeroes(entry) - 1
    /\ Returned =>
         AsSeq(array) = Zeroes(CountZeroes(entry)) \o NonZeroes(AsSeq(entry))

\* the unit test's array {1,2,...,0,0} cut to four elements
C10_Witness ==
  /\ Returned /\ fn = "RuntimeOptimized" /\ ValidCall
  /\ AsSeq(entry) = <<1, 2, 0, 0>>
  /\ AsSeq(array) = <<0, 0, 1, 2>>

====
